---- MODULE Spec2Model ----
(***************************************************************************)
(* A model of assetman/compilers.py: the process runner (run_proc), the    *)
(* staleness check (needs_compile), path resolution (get_paths), the image *)
(* inliner (inline_images) and the four compiler strategies (JS, CSS,      *)
(* LESS, SASS).                                                            *)
(*                                                                         *)
(* CSS text is a sequence of tokens: a token is a piece of plain text, a   *)
(* newline, or one whole url(...) occurrence.  An external process is an   *)
(* opaque step of the environment that answers with an exit code, the      *)
(* captured standard output and the captured standard error.               *)
(***************************************************************************)
EXTENDS Naturals, Integers, Sequences, FiniteSets, TLC

VARIABLES
    kind,              \* which strategy the block uses: "js", "css", "less", "sass"
    rel_urls,          \* self.rel_urls: the declared asset references, in order
    kwargs,            \* keyword arguments of compile(): [skip_inline_images]
    isfile,            \* the paths for which os.path.isfile is true
    content,           \* the text of each asset file
    st_size,           \* os.stat(path).st_size of each image file
    cached_manifest,   \* cached_manifest['blocks']: block id -> version
    current_manifest,  \* current_manifest['blocks']: block id -> version
    name_hash,         \* self.get_hash()
    compiled_exists,   \* os.path.exists(self.get_compiled_path())
    pc,                \* where the call stands
    gp,                \* what the call's get_paths() did
    outputs,           \* LessCompiler.do_compile: the transpiler outputs so far
    css,               \* what CSSCompiler.do_compile received and did
    procs,             \* every external process spawned so far, in order
    last,              \* the last run_proc call and what it gave back
    result             \* what the call gave back to its caller

vars == <<kind, rel_urls, kwargs, isfile, content, st_size, cached_manifest,
          current_manifest, name_hash, compiled_exists, pc, gp, outputs, css,
          procs, last, result>>

(***************************************************************************)
(* Bounds of the model.                                                    *)
(***************************************************************************)
MaxPaths == 2
MaxTokens == 2

(***************************************************************************)
(* Small domains the inputs are drawn from.                                *)
(***************************************************************************)
Kinds == {"js", "css", "less", "sass"}
Urls == {"a", "b"}
Images == {"i.png", "d.pdf"}
BlockIds == {"h1", "h2"}
Versions == {"v1", "v2"}
static_dir == "/static"

RECURSIVE SeqsUpTo(_, _)
SeqsUpTo(S, n) ==
    IF n = 0 THEN {<<>>}
    ELSE LET shorter == SeqsUpTo(S, n - 1)
         IN shorter \cup {Append(s, x) : s \in shorter, x \in S}

Range(s) == {s[k] : k \in 1..Len(s)}

(***************************************************************************)
(* Tokens of CSS text.                                                     *)
(***************************************************************************)
Plain == "x"
Newline == "\n"
ExternalUrl == "url(http://e/e.png)"
StaticUrl(img) == "url(/s/" \o img \o ")"
DataUrl(img) == "url(data:" \o img \o ")"
Tokens == {Plain, ExternalUrl} \cup {StaticUrl(i) : i \in Images}

(***************************************************************************)
(* Path resolution and the static-url pattern (assetman.tools).            *)
(***************************************************************************)
make_static_path(dir, p) == dir \o "/" \o p

\* The url() occurrences the pattern of get_static_pattern matches.
IsStaticMatch(tok) == \E i \in Images : tok = StaticUrl(i)
\* The rel_path group of a match.
RelPathOf(tok) == CHOOSE i \in Images : tok = StaticUrl(i)

\* mimetypes.guess_type(path)[0], formatted with %s (None prints as "None").
guess_type(img) ==
    CASE img = "i.png" -> "image/png"
      [] img = "d.pdf" -> "application/pdf"
      [] OTHER -> "None"

(***************************************************************************)
(* run_proc                                                                *)
(***************************************************************************)
NoCmd == [tool |-> "none", args |-> <<>>]

\* ex is what the operating system gave back: [returncode, out, err].
run_proc_stderr_fails(cmd, ex) ==
    IF ex.returncode # 0 \/ ex.err # ""
    THEN [raised |-> TRUE, exc |-> "CompileError", cmd |-> cmd, err |-> ex.err,
          out |-> <<>>, warned |-> FALSE]
    ELSE [raised |-> FALSE, exc |-> "", cmd |-> NoCmd, err |-> "",
          out |-> ex.out, warned |-> FALSE]

run_proc_ignores_exit(cmd, ex) ==
    [raised |-> FALSE, exc |-> "", cmd |-> NoCmd, err |-> "",
     out |-> ex.out, warned |-> ex.err # ""]

run_proc(cmd, ex) ==
    IF ex.returncode # 0
    THEN [raised |-> TRUE, exc |-> "CompileError", cmd |-> cmd, err |-> ex.err,
          out |-> <<>>, warned |-> FALSE]
    ELSE [raised |-> FALSE, exc |-> "", cmd |-> NoCmd, err |-> "",
          out |-> ex.out, warned |-> ex.err # ""]

(***************************************************************************)
(* AssetCompiler.needs_compile                                             *)
(***************************************************************************)
needs_compile_no_disk_check(cached, current, h, exists) ==
    IF h \notin DOMAIN current
    THEN "AssertionError"
    ELSE IF h \in DOMAIN cached /\ cached[h] = current[h] THEN "False" ELSE "True"

needs_compile(cached, current, h, exists) ==
    IF h \notin DOMAIN current
    THEN "AssertionError"
    ELSE LET content_hash == current[h]
         IN IF h \in DOMAIN cached
            THEN IF cached[h] = content_hash
                 THEN IF ~exists THEN "True" ELSE "False"
                 ELSE "True"
            ELSE "True"

(***************************************************************************)
(* AssetCompiler.get_paths                                                 *)
(***************************************************************************)
get_paths_first_missing(urls, files) ==
    LET ps == [k \in 1..Len(urls) |-> make_static_path(static_dir, urls[k])]
        missing == SelectSeq(ps, LAMBDA p : p \notin files)
    IN IF \A k \in 1..Len(ps) : ps[k] \in files
       THEN [raised |-> FALSE, paths |-> ps, missing |-> <<>>]
       ELSE [raised |-> TRUE, paths |-> <<>>, missing |-> <<missing[1]>>]

get_paths(urls, files) ==
    LET ps == [k \in 1..Len(urls) |-> make_static_path(static_dir, urls[k])]
        missing == SelectSeq(ps, LAMBDA p : p \notin files)
    IN IF \A k \in 1..Len(ps) : ps[k] \in files
       THEN [raised |-> FALSE, paths |-> ps, missing |-> <<>>]
       ELSE [raised |-> TRUE, paths |-> <<>>, missing |-> missing]

(***************************************************************************)
(* CSSCompiler.inline_images                                               *)
(***************************************************************************)
KB == 1024
MAX_FILE_SIZE == 24 * KB
MAX_DATA_URI_SIZE == 32 * KB

\* len(base64.b64encode(data)) for data of n bytes.
b64encode_len(n) == 4 * ((n + 2) \div 3)

\* len('data:%s;base64,%s' % (mime, encoded))
data_uri_len(img, size) ==
    Len("data:") + Len(guess_type(img)) + Len(";base64,") + b64encode_len(size)

replacer_uri_limit_inclusive(tok, files, sizes) ==
    LET rel_path == RelPathOf(tok)
        path == make_static_path(static_dir, rel_path)
    IN IF path \notin files
       THEN [raised |-> TRUE, exc |-> "AssertionError", tok |-> tok]
       ELSE IF sizes[rel_path] > MAX_FILE_SIZE
            THEN [raised |-> FALSE, exc |-> "", tok |-> tok]
            ELSE IF data_uri_len(rel_path, sizes[rel_path]) > MAX_DATA_URI_SIZE
                 THEN [raised |-> FALSE, exc |-> "", tok |-> tok]
                 ELSE [raised |-> FALSE, exc |-> "", tok |-> DataUrl(rel_path)]

\* What replacer does with one match of the pattern.
replacer(tok, files, sizes) ==
    LET rel_path == RelPathOf(tok)
        path == make_static_path(static_dir, rel_path)
    IN IF path \notin files
       THEN [raised |-> TRUE, exc |-> "AssertionError", tok |-> tok]
       ELSE IF sizes[rel_path] > MAX_FILE_SIZE
            THEN [raised |-> FALSE, exc |-> "", tok |-> tok]
            ELSE IF data_uri_len(rel_path, sizes[rel_path]) >= MAX_DATA_URI_SIZE
                 THEN [raised |-> FALSE, exc |-> "", tok |-> tok]
                 ELSE [raised |-> FALSE, exc |-> "", tok |-> DataUrl(rel_path)]

\* re.sub(pattern, replacer, css_src): every match is handed to replacer, left
\* to right; an exception of replacer ends the pass.
inline_images(css_src, files, sizes) ==
    LET hit(k) == IsStaticMatch(css_src[k])
        bad == {k \in 1..Len(css_src) :
                    hit(k) /\ replacer(css_src[k], files, sizes).raised}
    IN IF bad # {}
       THEN [raised |-> TRUE, exc |-> "AssertionError", text |-> <<>>]
       ELSE [raised |-> FALSE, exc |-> "",
             text |-> [k \in 1..Len(css_src) |->
                          IF hit(k) THEN replacer(css_src[k], files, sizes).tok
                          ELSE css_src[k]]]

(***************************************************************************)
(* '\n'.join(texts)                                                        *)
(***************************************************************************)
RECURSIVE join_newline(_)
join_newline(texts) ==
    IF Len(texts) = 0 THEN <<>>
    ELSE IF Len(texts) = 1 THEN texts[1]
    ELSE texts[1] \o <<Newline>> \o join_newline(Tail(texts))

RECURSIVE concat_all(_)
concat_all(texts) ==
    IF Len(texts) = 0 THEN <<>> ELSE texts[1] \o concat_all(Tail(texts))

\* LessCompiler.do_compile: the css_input it hands to the CSS stage.
less_css_input_no_separator(outs) == concat_all(outs)

less_css_input(outs) == join_newline(outs)

\* CSSCompiler.do_compile: the css_input it builds when none is given.
css_read_inputs(paths, texts) ==
    join_newline([k \in 1..Len(paths) |-> texts[paths[k]]])

(***************************************************************************)
(* The commands.                                                           *)
(***************************************************************************)
closure_cmd(paths) == [tool |-> "closure_compiler", args |-> paths]
yui_cmd == [tool |-> "yui_compressor", args |-> <<>>]
lessc_cmd(path) == [tool |-> "lessc", args |-> <<path>>]
sass_cmd(urls) == [tool |-> "sass", args |-> urls]

(***************************************************************************)
(* What the operating system can answer to a spawned process.              *)
(***************************************************************************)
OutTexts == {<<Plain>>, <<StaticUrl("i.png")>>}
Outcomes ==
    [returncode : {0}, out : OutTexts, err : {"", "warning"}]
    \cup [returncode : {1}, out : {<<Plain>>}, err : {"", "boom"}]

(***************************************************************************)
(* Results of a call.                                                      *)
(***************************************************************************)
NoResult ==
    [status |-> "none", exc |-> "", cmd |-> NoCmd, err |-> "",
     missing |-> <<>>, value |-> <<>>]
Returned(text) == [NoResult EXCEPT !.status = "returned", !.value = text]
RaisedCompile(r) ==
    [NoResult EXCEPT !.status = "raised", !.exc = r.exc, !.cmd = r.cmd,
                     !.err = r.err]
RaisedDependency(g) ==
    [NoResult EXCEPT !.status = "raised", !.exc = "DependencyError",
                     !.missing = g.missing]
RaisedAssertion == [NoResult EXCEPT !.status = "raised", !.exc = "AssertionError"]

NoGetPaths == [called |-> FALSE, raised |-> FALSE, paths |-> <<>>, missing |-> <<>>]
Called(g) == [called |-> TRUE, raised |-> g.raised, paths |-> g.paths,
              missing |-> g.missing]
NoCss == [called |-> FALSE, given |-> FALSE, input |-> <<>>, inlined |-> FALSE,
          raised |-> FALSE, stdin |-> <<>>]
NoLast == [called |-> FALSE, cmd |-> NoCmd, has_stdin |-> FALSE, stdin |-> <<>>,
           returncode |-> 0, out |-> <<>>, err |-> "", res |-> NoResult]

Proc(cmd, has_stdin, stdin, ex) ==
    [cmd |-> cmd, has_stdin |-> has_stdin, stdin |-> stdin,
     returncode |-> ex.returncode, out |-> ex.out, err |-> ex.err]

\* One run_proc call: the process is spawned, answers ex, and run_proc gives r.
Ran(cmd, has_stdin, stdin, ex, r) ==
    /\ procs' = Append(procs, Proc(cmd, has_stdin, stdin, ex))
    /\ last' = [called |-> TRUE, cmd |-> cmd, has_stdin |-> has_stdin,
                stdin |-> stdin, returncode |-> ex.returncode, out |-> ex.out,
                err |-> ex.err,
                res |-> IF r.raised THEN RaisedCompile(r) ELSE Returned(r.out)]

(***************************************************************************)
(* Initial states.                                                         *)
(***************************************************************************)
AssetPaths == {make_static_path(static_dir, u) : u \in Urls}
ImagePaths == {make_static_path(static_dir, i) : i \in Images}
FileTexts == {<<Plain>>, <<StaticUrl("i.png")>>}
\* Image sizes on both sides of the two thresholds of inline_images.
ImageSizes == {100, 24552, 24553, 24558, 24559, 24576, 24577}
Manifests == UNION {[S -> Versions] : S \in SUBSET BlockIds}

InitCall ==
    /\ pc = "ready"
    /\ gp = NoGetPaths
    /\ outputs = <<>>
    /\ procs = <<>>
    /\ last = NoLast
    /\ result = NoResult

NoManifests ==
    /\ cached_manifest = <<>>
    /\ current_manifest = <<>>
    /\ name_hash = "h1"
    /\ compiled_exists = FALSE

\* A block of any strategy, about to be compiled.
Init ==
    /\ kind \in Kinds
    /\ rel_urls \in SeqsUpTo(Urls, MaxPaths)
    /\ kwargs \in [skip_inline_images : BOOLEAN]
    /\ isfile \in SUBSET (AssetPaths \cup {make_static_path(static_dir, "i.png")})
    /\ content \in [AssetPaths -> FileTexts]
    /\ st_size \in [Images -> {100, 24577}]
    /\ st_size["d.pdf"] = 100
    /\ css = NoCss
    /\ NoManifests
    /\ InitCall

\* A block whose staleness is about to be decided.
InitNeeds ==
    /\ kind \in Kinds
    /\ rel_urls = <<>>
    /\ kwargs = [skip_inline_images |-> FALSE]
    /\ isfile = {}
    /\ content = [p \in AssetPaths |-> <<Plain>>]
    /\ st_size = [i \in Images |-> 100]
    /\ css = NoCss
    /\ cached_manifest \in Manifests
    /\ current_manifest \in Manifests
    /\ name_hash \in BlockIds
    /\ compiled_exists \in BOOLEAN
    /\ InitCall

\* A CSS text about to go through the image inliner.
InitInline ==
    /\ kind = "css"
    /\ rel_urls = <<>>
    /\ kwargs = [skip_inline_images |-> FALSE]
    /\ isfile \in SUBSET ImagePaths
    /\ content = [p \in AssetPaths |-> <<Plain>>]
    /\ st_size \in [Images -> ImageSizes]
    /\ css \in {[NoCss EXCEPT !.input = t] : t \in SeqsUpTo(Tokens, MaxTokens)}
    /\ NoManifests
    /\ InitCall

(***************************************************************************)
(* CSSCompiler.do_compile, up to the point where the minifier is spawned.  *)
(* given: css_input was passed; skip: kwargs.get("skip_inline_images").    *)
(***************************************************************************)
css_stage(text, given, skip) ==
    LET r == IF skip THEN [raised |-> FALSE, exc |-> "", text |-> text]
             ELSE inline_images(text, isfile, st_size)
    IN [called |-> TRUE, given |-> given, input |-> text, inlined |-> ~skip,
        raised |-> r.raised, stdin |-> r.text]

EnterCss(text, given, skip) ==
    /\ css' = css_stage(text, given, skip)
    /\ IF css'.raised
       THEN pc' = "done" /\ result' = RaisedAssertion
       ELSE pc' = "yui" /\ UNCHANGED result

Env == <<kind, rel_urls, kwargs, isfile, content, st_size, cached_manifest,
         current_manifest, name_hash, compiled_exists>>

(***************************************************************************)
(* compile() of each strategy, up to its first external process.           *)
(***************************************************************************)
CompileJS ==
    /\ pc = "ready" /\ kind = "js"
    /\ LET g == get_paths(rel_urls, isfile)
       IN /\ gp' = Called(g)
          /\ IF g.raised
             THEN pc' = "done" /\ result' = RaisedDependency(g)
             ELSE pc' = "closure" /\ UNCHANGED result
    /\ UNCHANGED <<Env, outputs, css, procs, last>>

CompileCSS ==
    /\ pc = "ready" /\ kind = "css"
    /\ LET g == get_paths(rel_urls, isfile)
       IN /\ gp' = Called(g)
          /\ IF g.raised
             THEN pc' = "done" /\ result' = RaisedDependency(g) /\ UNCHANGED css
             ELSE EnterCss(css_read_inputs(g.paths, content), FALSE,
                           kwargs.skip_inline_images)
    /\ UNCHANGED <<Env, outputs, procs, last>>

CompileLess ==
    /\ pc = "ready" /\ kind = "less"
    /\ LET g == get_paths(rel_urls, isfile)
       IN /\ gp' = Called(g)
          /\ IF g.raised
             THEN pc' = "done" /\ result' = RaisedDependency(g) /\ UNCHANGED css
             ELSE IF Len(g.paths) = 0
                  THEN EnterCss(less_css_input(<<>>), TRUE, FALSE)
                  ELSE pc' = "lessc" /\ UNCHANGED <<result, css>>
    /\ UNCHANGED <<Env, outputs, procs, last>>

CompileSass ==
    /\ pc = "ready" /\ kind = "sass"
    /\ pc' = "sass"
    /\ UNCHANGED <<Env, gp, outputs, css, procs, last, result>>

(***************************************************************************)
(* The external processes.                                                 *)
(***************************************************************************)
RunClosure ==
    /\ pc = "closure"
    /\ \E ex \in Outcomes :
         LET cmd == closure_cmd(gp.paths)
             r == run_proc(cmd, ex)
         IN /\ Ran(cmd, FALSE, <<>>, ex, r)
            /\ result' = IF r.raised THEN RaisedCompile(r) ELSE Returned(r.out)
    /\ pc' = "done"
    /\ UNCHANGED <<Env, gp, outputs, css>>

RunLessc ==
    /\ pc = "lessc"
    /\ \E ex \in Outcomes :
         LET cmd == lessc_cmd(gp.paths[Len(outputs) + 1])
             r == run_proc(cmd, ex)
         IN /\ Ran(cmd, FALSE, <<>>, ex, r)
            /\ IF r.raised
               THEN /\ pc' = "done" /\ result' = RaisedCompile(r)
                    /\ UNCHANGED <<outputs, css>>
               ELSE /\ outputs' = Append(outputs, r.out)
                    /\ IF Len(outputs') = Len(gp.paths)
                       THEN EnterCss(less_css_input(outputs'), TRUE, FALSE)
                       ELSE UNCHANGED <<pc, result, css>>
    /\ UNCHANGED <<Env, gp>>

RunSass ==
    /\ pc = "sass"
    /\ \E ex \in Outcomes :
         LET cmd == sass_cmd(rel_urls)
             r == run_proc(cmd, ex)
         IN /\ Ran(cmd, FALSE, <<>>, ex, r)
            /\ IF r.raised
               THEN pc' = "done" /\ result' = RaisedCompile(r) /\ UNCHANGED css
               ELSE EnterCss(r.out, TRUE, FALSE)
    /\ UNCHANGED <<Env, gp, outputs>>

RunYui ==
    /\ pc = "yui"
    /\ \E ex \in Outcomes :
         LET r == run_proc(yui_cmd, ex)
         IN /\ Ran(yui_cmd, TRUE, css.stdin, ex, r)
            /\ result' = IF r.raised THEN RaisedCompile(r) ELSE Returned(r.out)
    /\ pc' = "done"
    /\ UNCHANGED <<Env, gp, outputs, css>>

Next ==
    \/ CompileJS \/ CompileCSS \/ CompileLess \/ CompileSass
    \/ RunClosure \/ RunLessc \/ RunSass \/ RunYui

Spec == Init /\ [][Next]_vars

(***************************************************************************)
(* needs_compile and inline_images, called on their own.                   *)
(***************************************************************************)
NeedsCompile ==
    /\ pc = "ready"
    /\ result' = needs_compile(cached_manifest, current_manifest, name_hash,
                               compiled_exists)
    /\ pc' = "done"
    /\ UNCHANGED <<Env, gp, outputs, css, procs, last>>

SpecNeeds == InitNeeds /\ [][NeedsCompile]_vars

InlineImages ==
    /\ pc = "ready"
    /\ LET r == inline_images(css.input, isfile, st_size)
       IN /\ css' = [css EXCEPT !.called = TRUE, !.given = TRUE, !.inlined = TRUE,
                                !.raised = r.raised, !.stdin = r.text]
          /\ result' = IF r.raised THEN RaisedAssertion ELSE Returned(r.text)
    /\ pc' = "done"
    /\ UNCHANGED <<Env, gp, outputs, procs, last>>

SpecInline == InitInline /\ [][InlineImages]_vars

(***************************************************************************)
(* The claims.                                                             *)
(***************************************************************************)
\* The declared references resolved against the static directory, in order.
Resolved == [k \in 1..Len(rel_urls) |-> make_static_path(static_dir, rel_urls[k])]
MissingPaths == {p \in Range(Resolved) : p \notin isfile}

\* C1: for a block present in current.blocks, needs_compile returns false if
\* and only if the block is a key of cached.blocks, the cached version equals
\* the current version and the compiled output file exists; in the three other
\* situations it returns true.
C1_NeedsCompile ==
    (pc = "done" /\ name_hash \in DOMAIN current_manifest) =>
        /\ result \in {"True", "False"}
        /\ (result = "False") <=>
              /\ name_hash \in DOMAIN cached_manifest
              /\ cached_manifest[name_hash] = current_manifest[name_hash]
              /\ compiled_exists

C1_Witness ==
    /\ pc = "done"
    /\ name_hash \in DOMAIN current_manifest
    /\ name_hash \in DOMAIN cached_manifest
    /\ cached_manifest[name_hash] = current_manifest[name_hash]
    /\ ~compiled_exists
    /\ result = "True"

\* C2: for each of the four strategies, if a declared input asset path does
\* not exist on disk, compile fails with a DependencyError and no external
\* process has been spawned before that failure.
C2_FailFast ==
    MissingPaths # {} =>
        /\ procs = <<>>
        /\ pc = "done" => (result.status = "raised" /\ result.exc = "DependencyError")

\* C3: for every CSS-family strategy, when compile is called with
\* skip_inline_images set, the image inliner is never run and the text piped
\* to the minifier is exactly the un-inlined CSS.
C3_SkipInline ==
    (kind \in {"css", "less", "sass"} /\ kwargs.skip_inline_images /\ css.called) =>
        /\ ~css.inlined
        /\ css.stdin = css.input
        /\ \A k \in 1..Len(procs) :
               procs[k].cmd.tool = "yui_compressor" => procs[k].stdin = css.input

\* The outputs of the first n processes, joined by single newlines.
RECURSIVE JoinedOutputs(_)
JoinedOutputs(n) ==
    IF n = 0 THEN <<>>
    ELSE IF n = 1 THEN procs[1].out
    ELSE JoinedOutputs(n - 1) \o <<"\n">> \o procs[n].out

\* The transpiler part of a LESS compile: at most n calls, call k on path k
\* alone, and nothing but the minifier after them.
LessCallsInOrder ==
    LET n == Len(gp.paths)
    IN /\ Len(procs) <= n + 1
       /\ \A k \in 1..Len(procs) :
            IF k <= n
            THEN /\ procs[k].cmd = [tool |-> "lessc", args |-> <<Resolved[k]>>]
                 /\ ~procs[k].has_stdin
            ELSE /\ procs[k].cmd.tool = "yui_compressor"
                 /\ procs[k].has_stdin
                 /\ procs[k].stdin = css.stdin

AllTranspiled ==
    /\ kind = "less" /\ gp.called /\ ~gp.raised
    /\ Len(procs) >= Len(gp.paths)
    /\ \A k \in 1..Len(gp.paths) : procs[k].returncode = 0

\* C4 as stated: a LESS compile with n resolved paths whose transpiler calls
\* all succeed runs the transpiler n times, once per path in input order,
\* hands the outputs joined by newlines to the CSS stage, and invokes the
\* minifier once, after the n transpiler calls.
C4_LessAsStated ==
    (AllTranspiled /\ pc = "done") =>
        /\ LessCallsInOrder
        /\ css.called /\ css.given
        /\ css.input = JoinedOutputs(Len(gp.paths))
        /\ Len(procs) = Len(gp.paths) + 1

\* C4 (amended): as C4, except that the minifier is invoked exactly once, after
\* the n transpiler calls, when the image-inlining pass over the joined text
\* completes, and not at all when that pass fails.
C4_Less ==
    /\ (kind = "less" /\ gp.called /\ ~gp.raised) => LessCallsInOrder
    /\ AllTranspiled =>
          /\ css.called /\ css.given
          /\ css.input = JoinedOutputs(Len(gp.paths))
          /\ pc = "done" =>
                Len(procs) = Len(gp.paths) + (IF css.raised THEN 0 ELSE 1)

C4_Witness ==
    /\ kind = "less" /\ pc = "done"
    /\ Len(gp.paths) = 2
    /\ Len(procs) = 3
    /\ procs[1].out # procs[2].out
    /\ result.status = "returned"

\* C5: a SASS compile invokes the SASS transpiler exactly once, with the full
\* ordered list of resolved, existence-checked input paths as its path
\* arguments, and passes its output to the CSS stage as pre-supplied text.
C5_SassArgs ==
    kind = "sass" =>
        /\ \A k \in 1..Len(procs) :
              procs[k].cmd.tool = "sass" =>
                  /\ k = 1
                  /\ procs[k].cmd.args = Resolved
                  /\ MissingPaths = {}
        /\ css.called => (css.given /\ css.input = procs[1].out)

C7_GetPaths ==
    gp.called =>
        IF MissingPaths = {}
        THEN ~gp.raised /\ gp.paths = Resolved
        ELSE /\ gp.raised
             /\ Range(gp.missing) = MissingPaths
             /\ result.status = "raised"
             /\ result.exc = "DependencyError"
             /\ result.missing = gp.missing

C7_Witness ==
    /\ gp.called /\ gp.raised
    /\ Cardinality(MissingPaths) = 2
    /\ Range(result.missing) = MissingPaths

\* Whether occurrence k of the inliner's input came out as a data URI.
Inlined(k) == result.value[k] = DataUrl(RelPathOf(css.input[k]))

C9_MissingImage ==
    (css.called /\ css.raised) =>
        /\ result.status = "raised"
        /\ result.exc = "DependencyError"
        /\ \A k \in 1..Len(procs) : procs[k].cmd.tool # "yui_compressor"

====
